---- MODULE Spec2Model ----
(***************************************************************************)
(* Model of app.py, the Streamlit syringe-inspection stream simulator.     *)
(*                                                                         *)
(* The script is executed from its first line on every browser event       *)
(* (a button click or a widget edit).  st.session_state survives between   *)
(* runs; the widget values are bound to the script's globals at the top of *)
(* each run.  A run that finds st.session_state.streaming set enters the   *)
(* `while` loop of lines 174-202 and only leaves it when Streamlit         *)
(* interrupts the script, which it does inside an st.* element call (the   *)
(* first one of the loop body is line 185) when a browser event is         *)
(* pending.  time.sleep (line 202) is not interruptible.                   *)
(*                                                                         *)
(* Units: TIMESTAMP and the clock are whole seconds; defect rates are in   *)
(* hundredths of a percent (the sliders' step is 0.01), so 150 is 1.5 %.   *)
(***************************************************************************)
EXTENDS Integers, Sequences, FiniteSets, TLC

VARIABLES
    streaming,                 \* st.session_state.streaming
    data,                      \* st.session_state.data (rows in index order)
    start_time,                \* st.session_state.start_time
    cumulative_data,           \* st.session_state.cumulative_data
    batch_name,                \* globals bound from the sidebar widgets
    stream_speed,
    defect_rate_1,
    defect_rate_2,
    defect_rate_3,
    inspections_per_interval,
    metrics,                   \* what metrics_placeholder last displayed
    xlsx,                      \* contents of inspection_data.xlsx
    pc,                        \* where the script thread is
    pending,                   \* browser event waiting for a script run
    now,                       \* datetime.now()
    signals,                   \* history: Start/Stop clicks handled
    starts,                    \* history: Stopped-to-Running transitions
    ticks,                     \* history: loop iterations that generated
    events                     \* history: browser events raised

vars == <<streaming, data, start_time, cumulative_data, batch_name,
          stream_speed, defect_rate_1, defect_rate_2, defect_rate_3,
          inspections_per_interval, metrics, xlsx, pc, pending, now,
          signals, starts, ticks, events>>

session == <<streaming, data, start_time, cumulative_data>>
widgets == <<batch_name, stream_speed, defect_rate_1, defect_rate_2,
             defect_rate_3, inspections_per_interval>>
history == <<signals, starts, ticks, events>>

-----------------------------------------------------------------------------
(* Bounds of the model *)

MaxClock == 1
MaxEvents == 3
MaxTicks == 2

-----------------------------------------------------------------------------
(* Program constants *)

NoiseLow == -2
NoiseHigh == 3
DefaultSpeed == 5
DefaultRate1 == 100
DefaultRate2 == 150
DefaultRate3 == 80
DefaultInspections == 500

Noise == NoiseLow .. (NoiseHigh - 1)

CumulativeTags == <<"tag-4", "tag-5">>

-----------------------------------------------------------------------------
(* Generic helpers *)

Max(a, b) == IF a >= b THEN a ELSE b

RECURSIVE SelectTag(_, _)
SelectTag(rows, tag) ==
    IF rows = <<>> THEN <<>>
    ELSE IF Head(rows).TAGNAME = tag
         THEN <<Head(rows)>> \o SelectTag(Tail(rows), tag)
         ELSE SelectTag(Tail(rows), tag)

RECURSIVE CumSumFrom(_, _)
CumSumFrom(rows, acc) ==
    IF rows = <<>> THEN <<>>
    ELSE <<[Head(rows) EXCEPT !.TAGVALUE = acc + Head(rows).TAGVALUE]>>
         \o CumSumFrom(Tail(rows), acc + Head(rows).TAGVALUE)

CumSum(rows) == CumSumFrom(rows, 0)

-----------------------------------------------------------------------------
(* generate_interval_data, lines 38-66 *)

\* The <<rate, inspections>> pairs of the slider ranges for which the double
\* product inspections * (rate / 100) falls just below the exact integer
\* quotient, so that int() truncates to one less than the exact floor.
FloatShortfall ==
    { <<48, 625>>, <<70, 1000>>, <<96, 625>>, <<140, 500>>, <<140, 1000>>,
      <<192, 625>>, <<280, 250>>, <<280, 500>>, <<280, 750>>, <<280, 1000>>,
      <<290, 1000>>, <<384, 625>>, <<410, 1000>>, <<464, 625>> }

\* the rate taken as a fraction: the division by 100 left out
BaseDefectsNoPercent(inspections, rate) == (inspections * rate) \div 100

\* int(inspections_per_interval * (defect_rate / 100)), lines 43-45
BaseDefects(inspections, rate) ==
    ((inspections * rate) \div 10000)
        - (IF <<rate, inspections>> \in FloatShortfall THEN 1 ELSE 0)

\* the noise added without the clamp of lines 54-56
NoisyDefectsUnclamped(inspections, rate, noise) ==
    BaseDefects(inspections, rate) + noise

\* lines 49-56: add the noise draw, then clamp at zero
NoisyDefects(inspections, rate, noise) ==
    Max(0, BaseDefects(inspections, rate) + noise)

\* line 57
TotalDefects(defects_1, defects_2, defects_3) ==
    defects_1 + defects_2 + defects_3

Row(tag, value, timestamp) ==
    [TAGNAME |-> tag, TAGVALUE |-> value, TIMESTAMP |-> timestamp]

\* the rows of lines 63 and 64 appended in the other order
generate_interval_data_swapped(timestamp, noise) ==
    LET defects_1 == NoisyDefects(inspections_per_interval, defect_rate_1, noise[1])
        defects_2 == NoisyDefects(inspections_per_interval, defect_rate_2, noise[2])
        defects_3 == NoisyDefects(inspections_per_interval, defect_rate_3, noise[3])
    IN  << Row("tag-1", defects_1, timestamp),
           Row("tag-2", defects_2, timestamp),
           Row("tag-3", defects_3, timestamp),
           Row("tag-5", inspections_per_interval, timestamp),
           Row("tag-4", TotalDefects(defects_1, defects_2, defects_3), timestamp) >>

\* the noise of line 49 applied to the inspection count as well
generate_interval_data_noisy_inspections(timestamp, noise) ==
    LET defects_1 == NoisyDefects(inspections_per_interval, defect_rate_1, noise[1])
        defects_2 == NoisyDefects(inspections_per_interval, defect_rate_2, noise[2])
        defects_3 == NoisyDefects(inspections_per_interval, defect_rate_3, noise[3])
    IN  << Row("tag-1", defects_1, timestamp),
           Row("tag-2", defects_2, timestamp),
           Row("tag-3", defects_3, timestamp),
           Row("tag-4", TotalDefects(defects_1, defects_2, defects_3), timestamp),
           Row("tag-5", Max(0, inspections_per_interval + noise[1]), timestamp) >>

generate_interval_data(timestamp, noise) ==
    LET defects_1 == NoisyDefects(inspections_per_interval, defect_rate_1, noise[1])
        defects_2 == NoisyDefects(inspections_per_interval, defect_rate_2, noise[2])
        defects_3 == NoisyDefects(inspections_per_interval, defect_rate_3, noise[3])
        total_defects == TotalDefects(defects_1, defects_2, defects_3)
    IN  << Row("tag-1", defects_1, timestamp),
           Row("tag-2", defects_2, timestamp),
           Row("tag-3", defects_3, timestamp),
           Row("tag-4", total_defects, timestamp),
           Row("tag-5", inspections_per_interval, timestamp) >>

-----------------------------------------------------------------------------
(* update_cumulative_data, lines 68-79 *)

\* lines 73-76 for one tag: the tag's rows with TAGVALUE replaced by its cumsum
TagCumulative(rows, tag) == CumSum(SelectTag(rows, tag))

\* the new frames added to the old view instead of replacing it
update_cumulative_data_incremental(rows, old) ==
    old \o TagCumulative(rows, CumulativeTags[1])
        \o TagCumulative(rows, CumulativeTags[2])

\* the loop of line 72 run for tag-4 only
update_cumulative_data_tag4_only(rows, old) ==
    LET frames == TagCumulative(rows, CumulativeTags[1])
    IN  IF frames # <<>> THEN frames ELSE old

\* the per-tag frames concatenated without the cumsum of line 75
update_cumulative_data_no_cumsum(rows, old) ==
    LET frames == SelectTag(rows, CumulativeTags[1])
                    \o SelectTag(rows, CumulativeTags[2])
    IN  IF frames # <<>> THEN frames ELSE old

\* The value st.session_state.cumulative_data has after the call: the
\* concatenation of the per-tag frames, or the old value when no tag has rows.
update_cumulative_data(rows, old) ==
    LET frames == TagCumulative(rows, CumulativeTags[1])
                    \o TagCumulative(rows, CumulativeTags[2])
    IN  IF frames # <<>> THEN frames ELSE old

-----------------------------------------------------------------------------
(* Metrics display, lines 190-200 and 212-222 *)

NoMetrics == [status |-> "absent"]
Fault == [status |-> "fault"]

\* groupby('TAGNAME').last().loc[tag, 'TAGVALUE']; a missing tag is a KeyError
HasTag(rows, tag) == SelectTag(rows, tag) # <<>>
LastValue(rows, tag) ==
    LET sel == SelectTag(rows, tag) IN sel[Len(sel)].TAGVALUE

\* (tag-4 / tag-5) * 100 as formatted by "{:.2f}", in hundredths of a percent
DefectRate(total_defects, total_inspected) ==
    (20000 * total_defects + total_inspected) \div (2 * total_inspected)

\* lines 195-200: the four metrics, a fault when the lookup or the division
\* cannot be evaluated
EvaluateMetrics(cum, batch) ==
    IF ~HasTag(cum, "tag-4") \/ ~HasTag(cum, "tag-5") THEN Fault
    ELSE IF LastValue(cum, "tag-5") = 0 THEN Fault
    ELSE [status |-> "shown",
          total_inspected |-> LastValue(cum, "tag-5"),
          total_defects |-> LastValue(cum, "tag-4"),
          defect_rate |-> DefectRate(LastValue(cum, "tag-4"), LastValue(cum, "tag-5")),
          batch |-> batch]

\* the guard of lines 195 and 217
MetricsGuard(rows, cum) == rows # <<>> /\ cum # <<>>

ShowMetrics(rows, cum, batch) ==
    IF MetricsGuard(rows, cum) THEN EvaluateMetrics(cum, batch) ELSE NoMetrics

\* the metrics evaluated without the emptiness guards of lines 205 and 217
StoppedDisplayUnguarded(rows, cum, batch) == EvaluateMetrics(cum, batch)

\* lines 205-222: what a run that is not streaming displays
StoppedDisplay(rows, cum, batch) ==
    IF rows # <<>> THEN ShowMetrics(rows, cum, batch) ELSE NoMetrics

-----------------------------------------------------------------------------
(* Inputs *)

BatchNames == {"Batch-1", "Batch-2"}
SpeedChoices == {1, DefaultSpeed}
RateChoices == {0, 140}
InspectionChoices == {100, 1000}

WidgetChoices ==
    [batch_name |-> BatchNames,
     stream_speed |-> SpeedChoices,
     defect_rate_1 |-> RateChoices,
     defect_rate_2 |-> RateChoices,
     defect_rate_3 |-> RateChoices,
     inspections_per_interval |-> InspectionChoices]

WidgetNames == DOMAIN WidgetChoices

\* the values the widgets hold, lines 26-36
CurrentWidgets ==
    [batch_name |-> batch_name,
     stream_speed |-> stream_speed,
     defect_rate_1 |-> defect_rate_1,
     defect_rate_2 |-> defect_rate_2,
     defect_rate_3 |-> defect_rate_3,
     inspections_per_interval |-> inspections_per_interval]

\* noise draws used while streaming: both extremes, none, and a mixed draw
StreamNoise ==
    { <<NoiseLow, NoiseLow, NoiseLow>>, <<0, 0, 0>>,
      <<NoiseHigh - 1, 0, NoiseLow>> }

AllNoise == Noise \X Noise \X Noise

NoEvent == [kind |-> "none"]
ToggleEvent == [kind |-> "toggle"]
SaveEvent == [kind |-> "save"]
EditEvent(w, v) == [kind |-> "edit", widget |-> w, value |-> v]

NoFile == [exists |-> FALSE, rows |-> <<>>]

-----------------------------------------------------------------------------
(* Initial state: the first script run of a session, lines 13-36; nothing is
   streaming and the log is empty, so the run displays nothing and ends. *)

Init ==
    /\ now = 0
    /\ streaming = FALSE
    /\ data = <<>>
    /\ start_time = 0
    /\ cumulative_data = <<>>
    /\ batch_name = "Batch-1"
    /\ stream_speed = DefaultSpeed
    /\ defect_rate_1 = DefaultRate1
    /\ defect_rate_2 = DefaultRate2
    /\ defect_rate_3 = DefaultRate3
    /\ inspections_per_interval = DefaultInspections
    /\ metrics = NoMetrics
    /\ xlsx = NoFile
    /\ pc = "idle"
    /\ pending = NoEvent
    /\ signals = 0
    /\ starts = 0
    /\ ticks = 0
    /\ events = 0

-----------------------------------------------------------------------------
(* Browser events.  Each one asks for a script run; the run happens when the
   script thread is idle or reaches an st.* element call. *)

\* Lines 176-181 run without a pause between the end of a wait and the first
\* st.* call, so an event is raised while the script is idle, drawing or asleep.
Interruptible == pc \in {"idle", "render", "sleep"}

ClickStartStop ==
    /\ Interruptible
    /\ pending = NoEvent
    /\ events < MaxEvents
    /\ pending' = ToggleEvent
    /\ events' = events + 1
    /\ UNCHANGED <<session, widgets, metrics, xlsx, pc, now,
                   signals, starts, ticks>>

ClickSave ==
    /\ Interruptible
    /\ pending = NoEvent
    /\ events < MaxEvents
    /\ pending' = SaveEvent
    /\ events' = events + 1
    /\ UNCHANGED <<session, widgets, metrics, xlsx, pc, now,
                   signals, starts, ticks>>

EditWidget ==
    /\ Interruptible
    /\ pending = NoEvent
    /\ events < MaxEvents
    /\ \E w \in WidgetNames : \E v \in WidgetChoices[w] :
          /\ v # CurrentWidgets[w]
          /\ pending' = EditEvent(w, v)
    /\ events' = events + 1
    /\ UNCHANGED <<session, widgets, metrics, xlsx, pc, now,
                   signals, starts, ticks>>

\* the wall clock advances while the script is idle; a run takes no time
\* apart from its sleeps
TimePasses ==
    /\ pc = "idle"
    /\ pending = NoEvent
    /\ now < MaxClock
    /\ now' = now + 1
    /\ UNCHANGED <<session, widgets, metrics, xlsx, pc, pending, history>>

-----------------------------------------------------------------------------
(* One script run, lines 13-222, up to the point where it either ends or
   enters the streaming loop. *)

\* the widget's value in the run that handles event ev, lines 26-36
WidgetAfter(ev, w) ==
    IF ev.kind = "edit" /\ ev.widget = w THEN ev.value ELSE CurrentWidgets[w]

\* the flag set rather than flipped
ToggledOn(flag) == TRUE

\* line 156
Toggled(flag) == ~flag

\* the marker stamped with the session's first start_time (line 18)
BatchStartEpoch(batch, started) == Row("tag-0", batch, 0)

\* lines 160-164
BatchStart(batch, started) == Row("tag-0", batch, started)

\* a start that appends no marker
StartStopLogNone(rows, flag, batch, started) == rows

\* a marker appended on every click, whichever way the flag went
StartStopLogAlways(rows, flag, batch, started) ==
    rows \o <<BatchStart(batch, started)>>

\* a start that begins a fresh log instead of appending to the old one
StartStopLogFresh(rows, flag, batch, started) ==
    IF flag THEN <<BatchStart(batch, started)>> ELSE rows

\* lines 157-165: the log after the button handler, given the flipped flag
StartStopLog(rows, flag, batch, started) ==
    IF flag THEN rows \o <<BatchStart(batch, started)>> ELSE rows

\* start_time left as it was
StartStopTimeStale(old, flag, started) == old

\* start_time assigned outside the `if` of line 157
StartStopTimeAlways(old, flag, started) == started

\* lines 157-158
StartStopTime(old, flag, started) == IF flag THEN started ELSE old

\* lines 155-165, then 168-171, then 174 or 205-222
ScriptRun ==
    /\ pending # NoEvent
    /\ pc \in {"idle", "render"}
    /\ pending' = NoEvent
    /\ batch_name' = WidgetAfter(pending, "batch_name")
    /\ stream_speed' = WidgetAfter(pending, "stream_speed")
    /\ defect_rate_1' = WidgetAfter(pending, "defect_rate_1")
    /\ defect_rate_2' = WidgetAfter(pending, "defect_rate_2")
    /\ defect_rate_3' = WidgetAfter(pending, "defect_rate_3")
    /\ inspections_per_interval' = WidgetAfter(pending, "inspections_per_interval")
    /\ IF pending.kind = "toggle"
       THEN /\ streaming' = Toggled(streaming)
            /\ data' = StartStopLog(data, streaming', batch_name', now)
            /\ start_time' = StartStopTime(start_time, streaming', now)
            /\ signals' = signals + 1
            /\ starts' = IF streaming' THEN starts + 1 ELSE starts
       ELSE UNCHANGED <<streaming, data, start_time, signals, starts>>
    /\ \E saved \in BOOLEAN :
          \* to_excel either writes the file or raises, which ends the run
          LET exporting == pending.kind = "save" /\ data' # <<>>
              raised == exporting /\ ~saved
          IN  /\ exporting \/ saved
              /\ xlsx' = IF exporting /\ saved
                         THEN [exists |-> TRUE, rows |-> data'] ELSE xlsx
              /\ pc' = IF streaming' /\ ~raised THEN "tick" ELSE "idle"
              /\ metrics' = IF streaming' \/ raised THEN NoMetrics
                            ELSE StoppedDisplay(data', cumulative_data, batch_name')
    /\ UNCHANGED <<cumulative_data, now, ticks, events>>

-----------------------------------------------------------------------------
(* The streaming loop, lines 174-202 *)

\* lines 176-181: generate, append, recompute; no st.* element call is made
\* here, so the script is not interrupted between the three
Generate(noises) ==
    /\ pc = "tick"
    /\ ticks < MaxTicks
    /\ \E noise \in noises :
          data' = data \o generate_interval_data(now, noise)
    /\ cumulative_data' = update_cumulative_data(data', cumulative_data)
    /\ pc' = "render"
    /\ ticks' = ticks + 1
    /\ UNCHANGED <<streaming, start_time, widgets, metrics, xlsx, pending, now,
                   signals, starts, events>>

Tick == Generate(StreamNoise)

\* lines 184-200 with no event pending: the plots and the metrics are drawn
Render ==
    /\ pc = "render"
    /\ pending = NoEvent
    /\ metrics' = ShowMetrics(data, cumulative_data, batch_name)
    /\ pc' = "sleep"
    /\ UNCHANGED <<session, widgets, xlsx, pending, now, history>>

\* line 202, then the loop condition of line 174
SleepElapses ==
    /\ pc = "sleep"
    /\ now' = now + stream_speed
    /\ pc' = IF streaming THEN "tick" ELSE "idle"
    /\ metrics' = IF streaming THEN metrics
                  ELSE StoppedDisplay(data, cumulative_data, batch_name)
    /\ UNCHANGED <<session, widgets, xlsx, pending, history>>

Next ==
    \/ ClickStartStop
    \/ ClickSave
    \/ EditWidget
    \/ TimePasses
    \/ ScriptRun
    \/ Tick
    \/ Render
    \/ SleepElapses

Spec == Init /\ [][Next]_vars

-----------------------------------------------------------------------------
(* generate_interval_data on its own: one interval generated right after a
   start, for a grid of slider settings and every noise draw. *)

GenRates == {0, DefaultRate3, DefaultRate1, 140, DefaultRate2, 500}
GenInspections == {100, DefaultInspections, 1000}

GenInit ==
    /\ now = 0
    /\ streaming = TRUE
    /\ start_time = 0
    /\ batch_name = "Batch-1"
    /\ data = <<BatchStart(batch_name, start_time)>>
    /\ cumulative_data = <<>>
    /\ stream_speed = DefaultSpeed
    /\ defect_rate_1 \in GenRates
    /\ defect_rate_2 \in GenRates
    /\ defect_rate_3 \in GenRates
    /\ inspections_per_interval \in GenInspections
    /\ metrics = NoMetrics
    /\ xlsx = NoFile
    /\ pc = "tick"
    /\ pending = NoEvent
    /\ signals = 1
    /\ starts = 1
    /\ ticks = 0
    /\ events = 1

GenTick == Generate(AllNoise)

\* lines 184-200 for that interval
GenRender == Render

GenNext ==
    \/ GenTick
    \/ GenRender

GenSpec == GenInit /\ [][GenNext]_vars

-----------------------------------------------------------------------------
(* update_cumulative_data called once more, with nothing appended since the
   call of line 181 or since the script last ended; the run is not followed
   further. *)

Recompute ==
    /\ pc \in {"render", "idle"}
    /\ cumulative_data' = update_cumulative_data(data, cumulative_data)
    /\ pc' = "recomputed"
    /\ UNCHANGED <<streaming, data, start_time, widgets, metrics, xlsx,
                   pending, now, history>>

RecomputeNext ==
    \/ Next
    \/ Recompute

RecomputeSpec == Init /\ [][RecomputeNext]_vars

-----------------------------------------------------------------------------
(* Properties *)

\* the positions of the rows of one tag, in log order
TagPositions(rows, tag) == {i \in 1..Len(rows) : rows[i].TAGNAME = tag}

\* the rows of one tag, in log order
RowsOf(rows, tag) == SelectSeq(rows, LAMBDA r : r.TAGNAME = tag)

RECURSIVE SumValues(_, _)
SumValues(rows, n) ==
    IF n = 0 THEN 0 ELSE SumValues(rows, n - 1) + rows[n].TAGVALUE

IsPrefix(s, t) ==
    /\ Len(s) <= Len(t)
    /\ \A i \in 1..Len(s) : t[i] = s[i]

\* C1: every tag-4 row in the log closes an interval whose three preceding
\* rows are tag-1, tag-2 and tag-3 with the same timestamp; its value is the
\* sum of their values, and each of the three values is at least zero.
C1_TotalIsSumOfCategories ==
    \A i \in TagPositions(data, "tag-4") :
        /\ i > 3
        /\ data[i - 3].TAGNAME = "tag-1"
        /\ data[i - 2].TAGNAME = "tag-2"
        /\ data[i - 1].TAGNAME = "tag-3"
        /\ \A k \in 1..3 : /\ data[i - k].TAGVALUE >= 0
                           /\ data[i - k].TIMESTAMP = data[i].TIMESTAMP
        /\ data[i].TAGVALUE
             = data[i - 3].TAGVALUE + data[i - 2].TAGVALUE + data[i - 1].TAGVALUE

\* an interval generated with a zero rate and a negative draw clamped to 0,
\* next to categories that kept a positive count
C1_ClampedInterval ==
    /\ ticks = 1
    /\ pc = "render"
    /\ defect_rate_1 = 0
    /\ defect_rate_2 = 140
    /\ inspections_per_interval = 500
    /\ data[2].TAGVALUE = 0
    /\ data[3].TAGVALUE = 4
    /\ data[5].TAGVALUE > data[3].TAGVALUE

\* C2: for tag-4 and tag-5 the cumulative view has one row per log row of
\* the tag, with that row's timestamp and the sum of the tag's values up to
\* and including it, and the running totals never decrease.
C2_CumulativeIsPrefixSum ==
    \A tag \in {"tag-4", "tag-5"} :
        LET view == RowsOf(cumulative_data, tag)
            logged == RowsOf(data, tag)
        IN  /\ Len(view) = Len(logged)
            /\ \A i \in 1..Len(view) :
                  /\ view[i].TIMESTAMP = logged[i].TIMESTAMP
                  /\ view[i].TAGVALUE = SumValues(logged, i)
                  /\ i > 1 => view[i - 1].TAGVALUE <= view[i].TAGVALUE

\* a stopped stream shown after two intervals, with a growing tag-4 total
C2_TwoIntervalsShown ==
    /\ ~streaming
    /\ pc = "idle"
    /\ ticks = 2
    /\ metrics.status = "shown"
    /\ Len(RowsOf(cumulative_data, "tag-4")) = 2
    /\ RowsOf(cumulative_data, "tag-4")[2].TAGVALUE
         > RowsOf(cumulative_data, "tag-4")[1].TAGVALUE
    /\ RowsOf(cumulative_data, "tag-4")[1].TAGVALUE > 0

\* C3: every step leaves the log as it was or extends it at the end: the
\* log before the step is a prefix of the log after it.
C3_LogAppendOnly == [][IsPrefix(data, data')]_vars

\* a log that grew over a start, an interval, a stop, a second start and a
\* second interval
C3_LogGrewAcrossRestart ==
    /\ starts = 2
    /\ ticks = 2
    /\ Len(data) = 12
    /\ data[1].TAGNAME = "tag-0"
    /\ data[7].TAGNAME = "tag-0"

Markers(rows) == RowsOf(rows, "tag-0")

\* C4: a step from Stopped to Running records the current time as
\* start_time and appends one tag-0 row whose value is the batch name of
\* that run and whose timestamp is start_time; the log always holds as many
\* tag-0 rows as starts were performed.
C4_StartAppendsOneMarker ==
    /\ [](Len(Markers(data)) = starts)
    /\ [][(~streaming /\ streaming') =>
            /\ start_time' = now
            /\ starts' = starts + 1
            /\ data' = Append(data, [TAGNAME |-> "tag-0",
                                     TAGVALUE |-> batch_name',
                                     TIMESTAMP |-> start_time'])]_vars

\* two starts made at different times, both markers in the log
C4_TwoStartsTwoMarkers ==
    /\ streaming
    /\ starts = 2
    /\ Len(Markers(data)) = 2
    /\ start_time > 0
    /\ data[Len(data)].TAGNAME = "tag-0"
    /\ data[Len(data)].TIMESTAMP = start_time

\* C5: a step from Running to Stopped leaves the log, the cumulative view
\* and start_time as they were.
C5_StopChangesOnlyFlag ==
    [][(streaming /\ ~streaming') =>
          UNCHANGED <<data, cumulative_data, start_time>>]_vars

\* a stream stopped later than it was started, after one interval
C5_StoppedAfterInterval ==
    /\ ~streaming
    /\ signals = 2
    /\ ticks = 1
    /\ now > start_time
    /\ pc = "idle"

\* C6: the flag is set exactly when an odd number of start/stop signals
\* has been handled, it starts cleared, and a step changes it only by
\* handling one such signal, which always flips it.
C6_FlagIsSignalParity ==
    /\ [](streaming <=> (signals % 2 = 1))
    /\ [][(streaming' # streaming) =>
            /\ pending = ToggleEvent
            /\ signals' = signals + 1]_vars
    /\ [][(signals' # signals) =>
            /\ signals' = signals + 1
            /\ streaming' = ~streaming]_vars

\* running again after three signals, with an export and an interval behind
C6_RunningAfterThreeSignals ==
    /\ signals = 3
    /\ streaming
    /\ ticks = 2
    /\ pc = "render"

C8_StopMidWaitHaltsGeneration ==
    /\ [][(pc = "tick" /\ streaming /\ pending = ToggleEvent) =>
            data' = data]_vars
    /\ [][~streaming => ticks' = ticks]_vars

\* C9 as stated: with no interval samples in the log, a finished run
\* reports total_inspected = 0 and no defect rate.
C9_NoSamplesZeroInspected ==
    (/\ RowsOf(data, "tag-4") = <<>>
     /\ RowsOf(data, "tag-5") = <<>>
     /\ events > 0 /\ pending = NoEvent /\ pc = "idle")
    => /\ update_cumulative_data(data, cumulative_data) = <<>>
       /\ "total_inspected" \in DOMAIN metrics
       /\ metrics.total_inspected = 0
       /\ "defect_rate" \notin DOMAIN metrics

\* C9 amended: with no interval samples in the log, recomputing the
\* cumulative view gives no rows for tag-4 and none for tag-5, and no
\* metric at all is displayed: neither a total nor a defect rate.
C9_NoSamplesNoMetrics ==
    (/\ RowsOf(data, "tag-4") = <<>>
     /\ RowsOf(data, "tag-5") = <<>>)
    => /\ update_cumulative_data(data, cumulative_data) = <<>>
       /\ RowsOf(cumulative_data, "tag-4") = <<>>
       /\ RowsOf(cumulative_data, "tag-5") = <<>>
       /\ metrics = NoMetrics

\* a run made for a batch-name edit, finished with an empty log
C9_RunWithEmptyLog ==
    /\ events > 0
    /\ pending = NoEvent
    /\ pc = "idle"
    /\ batch_name = "Batch-2"
    /\ data = <<>>
    /\ metrics = NoMetrics

\* C10: the metrics are either not displayed or displayed with a total
\* inspected, the divisor of the defect rate, above zero; they are never a
\* fault, and with no tag-5 sample in the log they are not displayed.
C10_RateDivisorPositive ==
    /\ metrics.status \in {"absent", "shown"}
    /\ metrics.status = "shown" => metrics.total_inspected > 0
    /\ RowsOf(data, "tag-5") = <<>> => metrics.status = "absent"

\* the rate shown by the loop for one interval of 100 inspections
C10_RateShownWhileStreaming ==
    /\ streaming
    /\ pc = "sleep"
    /\ metrics.status = "shown"
    /\ metrics.total_inspected = 100
    /\ metrics.defect_rate > 0

\* the value a widget holds in the browser: the pending edit, if there is one
BrowserValue(w) == WidgetAfter(pending, w)

\* C11: the five samples a tick appends are computed from the rates and the
\* inspection count the widgets hold at the time of the tick, and the rows
\* already in the log stay as they were.
C11_TickUsesCurrentConfiguration ==
    [][(ticks' = ticks + 1) =>
          LET n == Len(data')
              inspections == BrowserValue("inspections_per_interval")
              rate == <<BrowserValue("defect_rate_1"),
                        BrowserValue("defect_rate_2"),
                        BrowserValue("defect_rate_3")>>
          IN  /\ IsPrefix(data, data')
              /\ data'[n].TAGVALUE = inspections
              /\ \A k \in 1..3 : \E draw \in Noise :
                    data'[n - 5 + k].TAGVALUE
                      = Max(0, BaseDefects(inspections, rate[k]) + draw)]_vars

\* C12: every tag-5 row carries the inspection count of the configuration
\* the interval was generated with, whatever the noise draw.
C12_InspectionsPassThrough ==
    \A i \in TagPositions(data, "tag-5") :
        data[i].TAGVALUE = inspections_per_interval

\* an interval of 1000 inspections generated with the highest noise draw
C12_NoisyIntervalExactInspections ==
    /\ ticks = 1
    /\ inspections_per_interval = 1000
    /\ defect_rate_1 = 0
    /\ data[2].TAGVALUE = NoiseHigh - 1
    /\ data[6].TAGNAME = "tag-5"
    /\ data[6].TAGVALUE = 1000

\* C13: a call of update_cumulative_data made when nothing was appended
\* since the previous call leaves the cumulative view exactly as it was, and
\* leaves the log as it was.
C13_RecomputeIdempotent ==
    [][(pc' = "recomputed") =>
          (cumulative_data' = cumulative_data /\ data' = data)]_vars

\* the view recomputed once more after the second interval
C13_RecomputedAfterTwoIntervals ==
    /\ pc = "recomputed"
    /\ ticks = 2
    /\ Len(cumulative_data) = 4
    /\ cumulative_data[2].TAGVALUE > cumulative_data[1].TAGVALUE

\* C14: the run that handles a Save Data click leaves the log, the
\* cumulative view and the flag as they were, writes either nothing or the
\* whole log in log order, and, when the stream was Running, goes on into
\* the loop to generate the next interval.
C14_ExportLeavesStreamRunning ==
    [][(pending = SaveEvent /\ pending' = NoEvent) =>
          /\ UNCHANGED <<data, cumulative_data, streaming>>
          /\ xlsx' # xlsx => (xlsx'.exists /\ xlsx'.rows = data)
          /\ streaming => pc' = "tick"]_vars

\* floor(inspections * rate / 100), with rate in hundredths of a percent
ExactFloor(inspections, rate) == (inspections * rate) \div 10000

\* C15: after one interval each tag-k value, k in 1..3, is
\* max(0, floor(inspections * rate_k / 100) + noise_k) for a noise_k in
\* -2..2; and with rates 1.0, 1.5, 0.8 and 500 inspections the values
\* 5, 7, 4 come with tag-4 = 16 and tag-5 = 500.
C15_CategoryIsFloorPlusNoise ==
    ticks = 1 =>
        LET rate == <<defect_rate_1, defect_rate_2, defect_rate_3>> IN
        /\ \A k \in 1..3 : \E draw \in Noise :
              data[1 + k].TAGVALUE
                = Max(0, ExactFloor(inspections_per_interval, rate[k]) + draw)
        /\ (/\ rate = <<DefaultRate1, DefaultRate2, DefaultRate3>>
            /\ inspections_per_interval = DefaultInspections
            /\ <<data[2].TAGVALUE, data[3].TAGVALUE, data[4].TAGVALUE>> = <<5, 7, 4>>)
           => (data[5].TAGVALUE = 16 /\ data[6].TAGVALUE = 500)

IntervalTagOrder == <<"tag-1", "tag-2", "tag-3", "tag-4", "tag-5">>

\* rows g .. g+4 of the log are one interval: the five tags in order, with
\* one timestamp
IsIntervalGroup(rows, g) ==
    /\ g >= 1
    /\ g + 4 <= Len(rows)
    /\ \A k \in 1..5 : /\ rows[g + k - 1].TAGNAME = IntervalTagOrder[k]
                       /\ rows[g + k - 1].TIMESTAMP = rows[g].TIMESTAMP

\* C16: every row of the log is a tag-0 marker, or a tag-1 row that opens a
\* complete group of five rows tag-1 .. tag-5 with one timestamp, or a
\* tag-k row at its place k in the group of such a tag-1 row; and the
\* log holds as many rows of each of these tags as ticks were performed.
C16_LogIsMarkersAndFiveGroups ==
    /\ \A i \in 1..Len(data) :
          \/ data[i].TAGNAME = "tag-0"
          \/ data[i].TAGNAME = "tag-1" /\ IsIntervalGroup(data, i)
          \/ \E k \in 2..5 : /\ data[i].TAGNAME = IntervalTagOrder[k]
                             /\ i - k + 1 >= 1
                             /\ data[i - k + 1].TAGNAME = "tag-1"
    /\ \A k \in 1..5 :
          Cardinality(TagPositions(data, IntervalTagOrder[k])) = ticks

\* two intervals of one start, generated a wait apart
C16_TwoGroupsOneStart ==
    /\ ticks = 2
    /\ starts = 1
    /\ Len(data) = 11
    /\ data[2].TIMESTAMP < data[7].TIMESTAMP
    /\ data[6].TAGNAME = "tag-5"
    /\ data[7].TAGNAME = "tag-1"

\* C17: whenever metrics are displayed, the batch name among them is the
\* value of the last tag-0 row of the log.
C17_ShownBatchIsLatestMarker ==
    metrics.status = "shown" =>
        /\ Markers(data) # <<>>
        /\ metrics.batch = Markers(data)[Len(Markers(data))].TAGVALUE

\* C18: a log that is not empty begins with a tag-0 marker, so every
\* interval row has a marker before it; no interval exists before the first
\* start, and the script is inside the loop only while the flag is set.
C18_MarkerBeforeEveryInterval ==
    /\ data # <<>> => data[1].TAGNAME = "tag-0"
    /\ \A i \in 1..Len(data) :
          data[i].TAGNAME # "tag-0" =>
              \E j \in 1..(i - 1) : data[j].TAGNAME = "tag-0"
    /\ ticks > 0 => starts > 0
    /\ pc \in {"tick", "render", "sleep"} => streaming

\* a stopped stream whose log is one marker followed by one interval
C18_MarkerThenInterval ==
    /\ ~streaming
    /\ Len(data) = 6
    /\ data[1].TAGNAME = "tag-0"
    /\ data[2].TAGNAME = "tag-1"
    /\ data[1].TAGVALUE = "Batch-2"

\* C19: every tag-4 value is at most the tag-5 value of its interval, and
\* displayed metrics have total_defects <= total_inspected and a defect
\* rate between 0 and 100 percent.
C19_DefectsWithinInspections ==
    /\ \A i \in TagPositions(data, "tag-4") :
          /\ i < Len(data)
          /\ data[i + 1].TAGNAME = "tag-5"
          /\ data[i].TAGVALUE <= data[i + 1].TAGVALUE
    /\ metrics.status = "shown" =>
          /\ metrics.total_defects <= metrics.total_inspected
          /\ metrics.defect_rate >= 0
          /\ metrics.defect_rate <= 10000

\* the largest share the sliders allow: 5 % in each category of 100
\* inspections, with the highest noise draw in each
C19_HighestRateShown ==
    /\ metrics.status = "shown"
    /\ inspections_per_interval = 100
    /\ defect_rate_1 = 500 /\ defect_rate_2 = 500 /\ defect_rate_3 = 500
    /\ metrics.total_defects = 21
    /\ metrics.total_inspected = 100
    /\ metrics.defect_rate = 2100

\* C20: timestamps never decrease from one row of the log to the next, and once a start has
\* happened start_time is the timestamp of the last tag-0 row.
C20_TimestampsNonDecreasing ==
    /\ \A i \in 1..(Len(data) - 1) :
          data[i].TIMESTAMP <= data[i + 1].TIMESTAMP
    /\ starts > 0 =>
          start_time = Markers(data)[Len(Markers(data))].TIMESTAMP

\* a second start made later than the first, followed by its interval
C20_LaterRestart ==
    /\ starts = 2
    /\ Len(data) = 12
    /\ pc = "sleep"
    /\ start_time > Markers(data)[1].TIMESTAMP
    /\ data[12].TIMESTAMP = start_time

====
